---- MODULE Spec2Model ----
(***************************************************************************)
(* Verification model of the trustless verified-retrieval core:            *)
(*   - the notification bus      (bitswap/notifications/notifications.go)  *)
(*   - the proxy block store     (gateway proxyBlockstore, readerfile.go)  *)
(*   - CAR ingestion             (examples/verified-fetch carToFileStream) *)
(* Each component has its own specification; the variables of the other    *)
(* components stay at their initial values.                                *)
(***************************************************************************)
EXTENDS Integers, Sequences, FiniteSets, TLC

(* ------------------------------ bounds --------------------------------- *)
MaxSubs == 2
MaxKeys == 2
MaxPub == 3
MaxBody == 2      \* longest response body of a raw block request
MaxData == 1      \* longest block payload in an archive
MaxBlocks == 3    \* most sections in an archive
MaxLimit == 2     \* largest fetcher.limit

(* notifications.go:11; handed to pubsub.New, which uses it only for the   *)
(* channels made by Sub/SubOnce, never for a channel handed to AddSub.     *)
bufferSize == 16

Keys == {"k1", "k2"}
Subs == 1..MaxSubs
KeyLists == UNION {[1..n -> Keys] : n \in 0..MaxKeys}

Range(q) == {q[j] : j \in 1..Len(q)}

VARIABLES
    busPc,        \* pubsub goroutine: "recv" (at cmdChan), "send" (inside registry.send), "exited"
    busMsg,       \* block being fanned out by registry.send
    busTodo,      \* channels registry.send still has to send to, in iteration order
    topics,       \* registry.topics: key -> set of subscriber channels
    valuesCh,     \* per subscription: buffered contents of valuesCh
    valuesClosed, \* per subscription: valuesCh closed by the registry
    keys,         \* per subscription: the keys as passed to Subscribe
    pc,           \* per subscription: "idle", "loop", "fwd", "unsub", "done"
    iter,         \* per subscription: completed iterations of `for range keys`
    held,         \* per subscription: block read from valuesCh, not yet forwarded
    cancelled,    \* per subscription: ctx.Done() is closed
    sent,         \* per subscription: every block ever sent on blocksCh, in order
                  \* (the caller may read them at any time; none is ever taken back)
    blockCloses,  \* per subscription: number of close(blocksCh) executed
    panicked,     \* a send on a closed channel or a second close happened
    pubPending,   \* Publish calls blocked on cmdChan: key -> number of calls
    pubCalls,     \* Publish calls started so far
    owed          \* per subscription: keys published while it was registered for them

busVars == <<busPc, busMsg, busTodo, topics, valuesCh, valuesClosed, keys, pc, iter,
             held, cancelled, sent, blockCloses, panicked, pubPending,
             pubCalls, owed>>

(* proxy block store *)
VARIABLES
    validate,     \* proxyBlockstore.validate
    gatewayURL,   \* proxyBlockstore.gatewayURL
    pxCall,       \* the last finished call: arguments, gateway answer, result
    pxAfter       \* what that call did: requests issued, body handed on, error detail,
                  \* closes of the response body, and the adapter's fields after it

pxVars == <<validate, gatewayURL, pxCall, pxAfter>>

(* CAR ingestion (carToFileStream) *)
VARIABLES
    carPc,        \* "idle", "loop", "loaded", "resolved", "failed", "returned", "eof",
                  \* "readFailed"
    carArchive,   \* the archive the gateway streams: header and sections
    carPos,       \* sections consumed from the stream so far
    carStore,     \* local block store: set of <<cid, data>> entries
    carPuts,      \* blocks handed to blockStore.Put, in order
    carErr,       \* error returned by carToFileStream, or "none"
    carRoot,      \* root CID of the immutable path
    carStream,    \* data of the node the returned stream is built on, or NoStream
    carPath,      \* segments of the immutable path after the root CID
    carSegs,      \* segments ResolveToLastNode has not consumed yet
    carCur,       \* CID ResolveToLastNode has reached
    carTodo,      \* what the returned stream has still to read, first first
    carOut,       \* bytes read from the returned stream so far
    carNetReq,    \* a block was asked of the network
    carStoreClosed \* dagService.Blocks.Close() and dataStore.Close() have run

carVars == <<carPc, carArchive, carPos, carStore, carPuts, carErr, carRoot, carStream,
             carPath, carSegs, carCur, carTodo, carOut, carNetReq, carStoreClosed>>

(* path resolution and the archive request (fetcher.fetch, resolvePath) *)
VARIABLES
    rpPc,         \* "idle", "resolving", "resolved", "failed", "car"
    rpInput,      \* the path resolvePath was called with
    rpPath,       \* the local p of resolvePath
    rpResult,     \* the immutable path resolvePath returned, or NoPath
    rpErr,        \* the error resolvePath returned, or "none"
    rpLookups,    \* a name record was fetched or a DNS lookup made during this call
    rpBadRecord,  \* a record that fails validation was fetched during this request
    rpCarReq,     \* the archive request of this request has been issued
    rpPrev        \* the result of the call before, when this call resolves it again

rpVars == <<rpPc, rpInput, rpPath, rpResult, rpErr, rpLookups, rpBadRecord, rpCarReq, rpPrev>>

(* the stream httpRequest returns (fetcher.httpRequest, newLimitReadCloser) *)
VARIABLES
    hsPc,         \* "idle", "open", "closed", "failed", "finished"
    hsKind,       \* "archive" (fetch) or "record" (resolveIPNS)
    hsLimit,      \* fetcher.limit
    hsResp,       \* the response http.DefaultClient.Do gave
    hsStream,     \* the io.ReadCloser handed to the consumer: the budgets N of the
                  \* LimitedReaders around the body, outermost first, and its Closer
    hsPos,        \* bytes read from the response body so far
    hsOut,        \* bytes the consumer has read from the stream so far
    hsEOF,        \* the last Read returned io.EOF
    hsBodyClosed, \* resp.Body.Close() has been called
    hsCloses,     \* number of calls of resp.Body.Close() for this request
    hsErr         \* the error httpRequest returned: kind, status and body text

hsVars == <<hsPc, hsKind, hsLimit, hsResp, hsStream, hsPos, hsOut, hsEOF, hsBodyClosed,
            hsCloses, hsErr>>

(* files.ReaderFile *)
VARIABLES
    rfReader,     \* ReaderFile.reader: whether it is an io.Seeker, its bytes, its
                  \* read position, whether it is closed
    rfCall        \* the last call on the ReaderFile and what it returned

rfVars == <<rfReader, rfCall>>

vars == <<busVars, pxVars, carVars, rpVars, hsVars, rfVars>>

NoKey == "none"

(* toStrings: string(key) for every key, in order, duplicates kept.        *)
toStrings(ks) == [j \in 1..Len(ks) |-> ks[j]]

(* `for _, _ = range keys`: one iteration for every key as passed.           *)
Iterations(ks) == Len(ks)

(* mutant: both channels are made one slot short of len(keys).              *)
CapShort(s) == Len(keys[s]) - 1

(* make(chan, len(keys)) for both blocksCh and valuesCh.                    *)
Cap(s) == Len(keys[s])

(* ---------------------- the wrapped pubsub package ---------------------- *)
(* impl wraps a pubsub.PubSub (notifications.go:5, 20, 24).  That package   *)
(* runs one goroutine that owns the registry and takes sub, pub, unsub and  *)
(* shutdown commands from an unbuffered channel; AddSub, Pub, Unsub and     *)
(* Shutdown each send one command and return once it is received.  A pub    *)
(* is fanned out with a blocking send on every channel registered for the   *)
(* topic; a channel is closed when it leaves its last topic; on shutdown    *)
(* the goroutine removes every channel and ends.                            *)
(* registry.add for every topic of a sub command.                          *)
regAdd(t, strs, ch) == [k \in Keys |-> IF k \in Range(strs) THEN t[k] \cup {ch} ELSE t[k]]

(* registry.remove for every topic of an unsub command.                    *)
regRemove(t, strs, ch) == [k \in Keys |-> IF k \in Range(strs) THEN t[k] \ {ch} ELSE t[k]]

revTopics(t, ch) == {k \in Keys : ch \in t[k]}

(* the orders in which `for ch := range reg.topics[topic]` may visit chans *)
Orders(S) == {q \in UNION {[1..n -> S] : n \in {Cardinality(S)}} : Range(q) = S}

BusInit ==
    /\ busPc = "recv"
    /\ busMsg = NoKey
    /\ busTodo = <<>>
    /\ topics = [k \in Keys |-> {}]
    /\ valuesCh = [s \in Subs |-> <<>>]
    /\ valuesClosed = [s \in Subs |-> FALSE]
    /\ keys = [s \in Subs |-> <<>>]
    /\ pc = [s \in Subs |-> "idle"]
    /\ iter = [s \in Subs |-> 0]
    /\ held = [s \in Subs |-> NoKey]
    /\ cancelled = [s \in Subs |-> FALSE]
    /\ sent = [s \in Subs |-> <<>>]
    /\ blockCloses = [s \in Subs |-> 0]
    /\ panicked = FALSE
    /\ pubPending = [k \in Keys |-> 0]
    /\ pubCalls = 0
    /\ owed = [s \in Subs |-> {}]

(* ------------------- notifications.go: the bus -------------------------- *)
(* Subscribe up to the return of AddSub: both channels are made with        *)
(* capacity len(keys), the sub command is handed to the pubsub goroutine    *)
(* (cmdChan is unbuffered, so this needs the goroutine at its receive) and  *)
(* the forwarding goroutine is started; with no keys its loop body never    *)
(* runs and it goes straight to the deferred function.  Subscriptions take  *)
(* the slots in order.                                                      *)
Subscribe(s, ks) ==
    /\ pc[s] = "idle"
    /\ \A r \in Subs : r < s => pc[r] # "idle"
    /\ busPc = "recv"
    /\ keys' = [keys EXCEPT ![s] = ks]
    /\ topics' = regAdd(topics, toStrings(ks), s)
    /\ pc' = [pc EXCEPT ![s] = IF Iterations(ks) = 0 THEN "unsub" ELSE "loop"]
    /\ UNCHANGED <<pxVars, carVars, rpVars, hsVars, rfVars, busPc, busMsg, busTodo, valuesCh, valuesClosed, iter, held,
                   cancelled, sent, blockCloses, panicked, pubPending,
                   pubCalls, owed>>

(* A caller enters Publish: ps.wrapped.Pub blocks on cmdChan.               *)
Publish(k) ==
    /\ pubCalls < MaxPub
    /\ pubCalls' = pubCalls + 1
    /\ pubPending' = [pubPending EXCEPT ![k] = @ + 1]
    /\ UNCHANGED <<pxVars, carVars, rpVars, hsVars, rfVars, busPc, busMsg, busTodo, topics, valuesCh, valuesClosed, keys, pc,
                   iter, held, cancelled, sent, blockCloses, panicked, owed>>

(* The pubsub goroutine receives a pub command (the Publish call returns)   *)
(* and enters registry.send for the block's topic.                          *)
BusRecvPub ==
    /\ busPc = "recv"
    /\ \E k \in Keys :
        /\ pubPending[k] > 0
        /\ pubPending' = [pubPending EXCEPT ![k] = @ - 1]
        /\ owed' = [s \in Subs |-> IF s \in topics[k] THEN owed[s] \cup {k} ELSE owed[s]]
        /\ \E order \in Orders(topics[k]) :
            /\ busTodo' = order
            /\ busMsg' = IF order = <<>> THEN NoKey ELSE k
            /\ busPc' = IF order = <<>> THEN "recv" ELSE "send"
    /\ UNCHANGED <<pxVars, carVars, rpVars, hsVars, rfVars, topics, valuesCh, valuesClosed, keys, pc, iter, held, cancelled,
                   sent, blockCloses, panicked, pubCalls>>

(* registry.send: `ch <- msg`, a blocking send on the subscriber's channel. *)
BusSend ==
    /\ busPc = "send"
    /\ LET ch == Head(busTodo) IN
        /\ Len(valuesCh[ch]) < Cap(ch)
        /\ valuesCh' = [valuesCh EXCEPT ![ch] = Append(@, busMsg)]
        /\ panicked' = (panicked \/ valuesClosed[ch])
    /\ busTodo' = Tail(busTodo)
    /\ busPc' = IF Len(busTodo) = 1 THEN "recv" ELSE "send"
    /\ busMsg' = IF Len(busTodo) = 1 THEN NoKey ELSE busMsg
    /\ UNCHANGED <<pxVars, carVars, rpVars, hsVars, rfVars, topics, valuesClosed, keys, pc, iter, held, cancelled, sent, blockCloses, pubPending, pubCalls, owed>>

(* Shutdown: the pubsub goroutine leaves its loop, removes every channel    *)
(* from the registry (closing it) and ends; nothing receives on cmdChan     *)
(* afterwards.                                                              *)
Shutdown ==
    /\ busPc = "recv"
    /\ busPc' = "exited"
    /\ valuesClosed' = [s \in Subs |-> valuesClosed[s] \/ revTopics(topics, s) # {}]
    /\ panicked' = (panicked \/ \E s \in Subs : valuesClosed[s] /\ revTopics(topics, s) # {})
    /\ topics' = [k \in Keys |-> {}]
    /\ UNCHANGED <<pxVars, carVars, rpVars, hsVars, rfVars, busMsg, busTodo, valuesCh, keys, pc, iter, held, cancelled, sent,
                   blockCloses, pubPending, pubCalls, owed>>

(* The caller's context is cancelled while the goroutine can still see it. *)
Cancel(s) ==
    /\ pc[s] \in {"loop", "fwd"}
    /\ ~cancelled[s]
    /\ cancelled' = [cancelled EXCEPT ![s] = TRUE]
    /\ UNCHANGED <<pxVars, carVars, rpVars, hsVars, rfVars, busPc, busMsg, busTodo, topics, valuesCh, valuesClosed, keys, pc,
                   iter, held, sent, blockCloses, panicked, pubPending,
                   pubCalls, owed>>

(* mutant: the ctx.Done() branch closes blocksCh itself before returning,   *)
(* and the deferred function closes it again.                               *)
WorkerCancelledClosing(s) ==
    /\ \/ pc[s] = "loop" /\ iter[s] < Iterations(keys[s])
       \/ pc[s] = "fwd"
    /\ cancelled[s]
    /\ pc' = [pc EXCEPT ![s] = "unsub"]
    /\ held' = [held EXCEPT ![s] = NoKey]
    /\ blockCloses' = [blockCloses EXCEPT ![s] = @ + 1]
    /\ UNCHANGED <<pxVars, carVars, rpVars, hsVars, rfVars, busPc, busMsg, busTodo, topics, valuesCh,
                   valuesClosed, keys, iter, cancelled, sent, panicked, pubPending,
                   pubCalls, owed>>

(* case <-ctx.Done(): return   (outer and inner select)                     *)
WorkerCancelled(s) ==
    /\ \/ pc[s] = "loop" /\ iter[s] < Iterations(keys[s])
       \/ pc[s] = "fwd"
    /\ cancelled[s]
    /\ pc' = [pc EXCEPT ![s] = "unsub"]
    /\ held' = [held EXCEPT ![s] = NoKey]
    /\ UNCHANGED <<pxVars, carVars, rpVars, hsVars, rfVars, busPc, busMsg, busTodo, topics, valuesCh, valuesClosed, keys, iter,
                   cancelled, sent, blockCloses, panicked, pubPending,
                   pubCalls, owed>>

(* case val, ok := <-valuesCh with ok: the value is a *blocks.Block.        *)
WorkerRecv(s) ==
    /\ pc[s] = "loop"
    /\ iter[s] < Iterations(keys[s])
    /\ valuesCh[s] # <<>>
    /\ held' = [held EXCEPT ![s] = Head(valuesCh[s])]
    /\ valuesCh' = [valuesCh EXCEPT ![s] = Tail(@)]
    /\ pc' = [pc EXCEPT ![s] = "fwd"]
    /\ UNCHANGED <<pxVars, carVars, rpVars, hsVars, rfVars, busPc, busMsg, busTodo, topics, valuesClosed, keys, iter, cancelled,
                   sent, blockCloses, panicked, pubPending, pubCalls, owed>>

(* case val, ok := <-valuesCh with !ok (closed and drained): return.        *)
WorkerRecvClosed(s) ==
    /\ pc[s] = "loop"
    /\ iter[s] < Iterations(keys[s])
    /\ valuesCh[s] = <<>>
    /\ valuesClosed[s]
    /\ pc' = [pc EXCEPT ![s] = "unsub"]
    /\ UNCHANGED <<pxVars, carVars, rpVars, hsVars, rfVars, busPc, busMsg, busTodo, topics, valuesCh, valuesClosed, keys, iter,
                   held, cancelled, sent, blockCloses, panicked, pubPending,
                   pubCalls, owed>>

(* case blocksCh <- block: the next iteration follows, or the loop ends.    *)
WorkerForward(s) ==
    /\ pc[s] = "fwd"
    /\ Len(sent[s]) < Cap(s)
    /\ sent' = [sent EXCEPT ![s] = Append(@, held[s])]
    /\ panicked' = (panicked \/ blockCloses[s] > 0)
    /\ held' = [held EXCEPT ![s] = NoKey]
    /\ iter' = [iter EXCEPT ![s] = @ + 1]
    /\ pc' = [pc EXCEPT ![s] = IF iter[s] + 1 >= Iterations(keys[s]) THEN "unsub" ELSE "loop"]
    /\ UNCHANGED <<pxVars, carVars, rpVars, hsVars, rfVars, busPc, busMsg, busTodo, topics, valuesCh, valuesClosed, keys,
                   cancelled, blockCloses, pubPending, pubCalls, owed>>

(* The deferred function: Unsub(valuesCh, keys...) hands an unsub command   *)
(* (unsubAll when there are no keys) to the pubsub goroutine, which removes *)
(* the channel from its topics and closes it when it leaves its last topic; *)
(* then close(blocksCh).                                                    *)
WorkerUnsub(s) ==
    /\ pc[s] = "unsub"
    /\ busPc = "recv"
    /\ topics' = regRemove(topics, toStrings(keys[s]), s)
    /\ valuesClosed' = [valuesClosed EXCEPT ![s] = @ \/ revTopics(topics, s) # {}]
    /\ blockCloses' = [blockCloses EXCEPT ![s] = @ + 1]
    /\ panicked' = (panicked \/ blockCloses[s] > 0
                      \/ (valuesClosed[s] /\ revTopics(topics, s) # {}))
    /\ pc' = [pc EXCEPT ![s] = "done"]
    /\ UNCHANGED <<pxVars, carVars, rpVars, hsVars, rfVars, busPc, busMsg, busTodo, valuesCh, keys, iter, held, cancelled, sent,
                   pubPending, pubCalls, owed>>

WorkerStep(s) ==
    \/ WorkerCancelled(s)
    \/ WorkerRecv(s)
    \/ WorkerRecvClosed(s)
    \/ WorkerForward(s)
    \/ WorkerUnsub(s)

BusStep == BusRecvPub \/ BusSend

(* -------------------- content identifiers and hashing ------------------- *)
Digests == 0..1
HashFns == {"h1", "h2", "unsupported"}
Cids == [fn : HashFns, digest : Digests]
BytesUpTo(n) == UNION {[1..m -> 0..1] : m \in 0..n}

RECURSIVE Weighted(_, _)
Weighted(b, w) == IF b = <<>> THEN 0 ELSE w * Head(b) + Weighted(Tail(b), w + 1)

(* digest of the bytes under a hash function (two small digest functions)   *)
Digest(fn, b) ==
    IF fn = "h1" THEN (Weighted(b, 1) + Len(b)) % 2
    ELSE (Weighted(b, 2) + 1) % 2

(* cid.Prefix().Sum(data): the CID of data under c's prefix; an error for a *)
(* hash function that is not registered.                                    *)
Sum(c, b) ==
    IF c.fn = "unsupported" THEN [err |-> TRUE, cid |-> c]
    ELSE [err |-> FALSE, cid |-> [fn |-> c.fn, digest |-> Digest(c.fn, b)]]

(* nc.Equals(c) after a Sum without error                                   *)
HashMatches(c, b) == ~Sum(c, b).err /\ Sum(c, b).cid = c

(* ------------------ gateway proxyBlockstore (readerfile.go) ------------- *)
Nil == [nil |-> TRUE]
Statuses == {200, 204, 301, 404, 500}
(* what httpClient.Do and io.ReadAll give: a transport error, or a status   *)
(* and a body                                                               *)
Responses == [doErr : {TRUE}, status : {0}, body : {<<>>}]
                \cup [doErr : {FALSE}, status : Statuses, body : BytesUpTo(MaxBody)]

(* mutant: the result of Sum is checked for an error only, never compared  *)
(* with the requested CID.                                                  *)
fetchWithoutEquals(v, c, resp) ==
    IF resp.doErr THEN [blk |-> Nil, err |-> "transport"]
    ELSE IF resp.status # 200 THEN [blk |-> Nil, err |-> "http error from block gateway"]
    ELSE IF v /\ Sum(c, resp.body).err THEN [blk |-> Nil, err |-> "ErrWrongHash"]
    ELSE [blk |-> [cid |-> c, data |-> resp.body], err |-> "none"]

(* fetch: GET <gateway>/ipfs/<cid>?format=raw, then validation              *)
fetch(v, c, resp) ==
    IF resp.doErr THEN [blk |-> Nil, err |-> "transport"]
    ELSE IF resp.status # 200 THEN [blk |-> Nil, err |-> "http error from block gateway"]
    ELSE IF v /\ Sum(c, resp.body).err THEN [blk |-> Nil, err |-> "ErrWrongHash"]
    ELSE IF v /\ Sum(c, resp.body).cid # c THEN [blk |-> Nil, err |-> "ErrWrongHash"]
    ELSE [blk |-> [cid |-> c, data |-> resp.body], err |-> "none"]

(* what a call returned: the value of its kind, the others at zero         *)
Returned(op, c, resp, has, blk, size, err) ==
    [op |-> op, cid |-> c, resp |-> resp, validate |-> validate,
     gateways |-> gatewayURL,
     has |-> has, blk |-> blk, size |-> size, err |-> err]

(* what a call did, and the fields of the adapter when it returns           *)
After(requests, handed, errStatus, errBody, closes) ==
    [requests |-> requests, handed |-> handed, errStatus |-> errStatus,
     errBody |-> errBody, closes |-> closes,
     validate |-> validate', gateways |-> gatewayURL']

(* the trace fetch leaves: one request; the body is read only on status     *)
(* 200; the error for another status is made of resp.Status alone; the      *)
(* deferred Close runs once Do has returned a response.                     *)
fetchAfter(resp) ==
    After(1,
          ~resp.doErr /\ resp.status = 200,
          IF ~resp.doErr /\ resp.status # 200 THEN resp.status ELSE 0,
          Nil,
          IF resp.doErr THEN 0 ELSE 1)

Has(c, resp) ==
    LET r == fetch(validate, c, resp) IN
    /\ UNCHANGED <<validate, gatewayURL>>
    /\ pxCall' = IF r.err # "none"
                 THEN Returned("Has", c, resp, FALSE, Nil, 0, r.err)
                 ELSE Returned("Has", c, resp, r.blk # Nil, Nil, 0, "none")
    /\ pxAfter' = fetchAfter(resp)
    /\ UNCHANGED <<busVars, carVars, rpVars, hsVars, rfVars>>

Get(c, resp) ==
    LET r == fetch(validate, c, resp) IN
    /\ UNCHANGED <<validate, gatewayURL>>
    /\ pxCall' = IF r.err # "none"
                 THEN Returned("Get", c, resp, FALSE, Nil, 0, r.err)
                 ELSE Returned("Get", c, resp, FALSE, r.blk, 0, "none")
    /\ pxAfter' = fetchAfter(resp)
    /\ UNCHANGED <<busVars, carVars, rpVars, hsVars, rfVars>>

GetSize(c, resp) ==
    LET r == fetch(validate, c, resp) IN
    /\ UNCHANGED <<validate, gatewayURL>>
    /\ pxCall' = IF r.err # "none"
                 THEN Returned("GetSize", c, resp, FALSE, Nil, 0, r.err)
                 ELSE Returned("GetSize", c, resp, FALSE, Nil, Len(r.blk.data), "none")
    /\ pxAfter' = fetchAfter(resp)
    /\ UNCHANGED <<busVars, carVars, rpVars, hsVars, rfVars>>

HashOnRead(enabled) ==
    /\ validate' = enabled
    /\ UNCHANGED <<gatewayURL, pxCall, pxAfter, busVars, carVars, rpVars, hsVars, rfVars>>

(* the arguments of the write operations                                    *)
Blocks == [cid : Cids, data : BytesUpTo(MaxBody)]
BlockLists == {<<>>} \cup {<<b>> : b \in Blocks}
NoResponse == [doErr |-> TRUE, status |-> 0, body |-> <<>>]
NoCid == [fn |-> "h1", digest |-> 0]

(* Put: return util.ErrNotImplemented                                       *)
Put(blk) ==
    /\ UNCHANGED <<validate, gatewayURL>>
    /\ pxCall' = Returned("Put", blk.cid, NoResponse, FALSE, blk, 0, "ErrNotImplemented")
    /\ pxAfter' = After(0, FALSE, 0, Nil, 0)
    /\ UNCHANGED <<busVars, carVars, rpVars, hsVars, rfVars>>

(* PutMany: return util.ErrNotImplemented                                   *)
PutMany(blks) ==
    /\ UNCHANGED <<validate, gatewayURL>>
    /\ pxCall' = Returned("PutMany", IF blks = <<>> THEN NoCid ELSE blks[1].cid, NoResponse,
                          FALSE, IF blks = <<>> THEN Nil ELSE blks[1], Len(blks),
                          "ErrNotImplemented")
    /\ pxAfter' = After(0, FALSE, 0, Nil, 0)
    /\ UNCHANGED <<busVars, carVars, rpVars, hsVars, rfVars>>

(* AllKeysChan: return nil, util.ErrNotImplemented                          *)
AllKeysChan ==
    /\ UNCHANGED <<validate, gatewayURL>>
    /\ pxCall' = Returned("AllKeysChan", NoCid, NoResponse, FALSE, Nil, 0, "ErrNotImplemented")
    /\ pxAfter' = After(0, FALSE, 0, Nil, 0)
    /\ UNCHANGED <<busVars, carVars, rpVars, hsVars, rfVars>>

(* mutant: the delete is taken as done.                                     *)
DeleteBlockAccepted(c) ==
    /\ UNCHANGED <<validate, gatewayURL>>
    /\ pxCall' = Returned("DeleteBlock", c, NoResponse, FALSE, Nil, 0, "none")
    /\ pxAfter' = After(0, FALSE, 0, Nil, 0)
    /\ UNCHANGED <<busVars, carVars, rpVars, hsVars, rfVars>>

(* DeleteBlock: return util.ErrNotImplemented                               *)
DeleteBlock(c) ==
    /\ UNCHANGED <<validate, gatewayURL>>
    /\ pxCall' = Returned("DeleteBlock", c, NoResponse, FALSE, Nil, 0, "ErrNotImplemented")
    /\ pxAfter' = After(0, FALSE, 0, Nil, 0)
    /\ UNCHANGED <<busVars, carVars, rpVars, hsVars, rfVars>>

(* Fetch: GET <gateway><path> for an archive; any status but 200 is an      *)
(* error made of resp.Status and the body read to its end, and returns      *)
(* without closing the body; else cb(path, resp.Body) is called and the     *)
(* body is closed after it, whatever cb returned.                           *)
Fetch(resp, cbErr) ==
    /\ UNCHANGED <<validate, gatewayURL>>
    /\ IF resp.doErr
       THEN /\ pxCall' = Returned("Fetch", NoCid, resp, FALSE, Nil, 0, "transport")
            /\ pxAfter' = After(1, FALSE, 0, Nil, 0)
       ELSE IF resp.status # 200
       THEN /\ pxCall' = Returned("Fetch", NoCid, resp, FALSE, Nil, 0,
                                  "http error from car gateway")
            /\ pxAfter' = After(1, FALSE, resp.status, [text |-> resp.body], 0)
       ELSE /\ pxCall' = Returned("Fetch", NoCid, resp, FALSE, Nil, 0,
                                  IF cbErr THEN "callback" ELSE "none")
            /\ pxAfter' = After(1, TRUE, 0, Nil, 1)
    /\ UNCHANGED <<busVars, carVars, rpVars, hsVars, rfVars>>

(* NewProxyBlockstore: validation is on.                                    *)
ProxyInit ==
    /\ validate = TRUE
    /\ gatewayURL = <<"g1", "g2">>
    /\ pxCall = [op |-> "none", cid |-> [fn |-> "h1", digest |-> 0],
                 resp |-> [doErr |-> TRUE, status |-> 0, body |-> <<>>],
                 validate |-> TRUE, gateways |-> gatewayURL,
                 has |-> FALSE, blk |-> Nil, size |-> 0,
                 err |-> "none"]
    /\ pxAfter = [requests |-> 0, handed |-> FALSE, errStatus |-> 0, errBody |-> Nil,
                  closes |-> 0, validate |-> TRUE, gateways |-> gatewayURL]

ProxyNext ==
    \/ \E c \in Cids, resp \in Responses : Has(c, resp)
    \/ \E c \in Cids, resp \in Responses : Get(c, resp)
    \/ \E c \in Cids, resp \in Responses : GetSize(c, resp)
    \/ \E enabled \in BOOLEAN : HashOnRead(enabled)

(* the write operations, in the states HashOnRead and Get lead to           *)
ProxyWriteNext ==
    \/ \E blk \in Blocks : Put(blk)
    \/ \E blks \in BlockLists : PutMany(blks)
    \/ AllKeysChan
    \/ \E c \in Cids : DeleteBlock(c)
    \/ \E enabled \in BOOLEAN : HashOnRead(enabled)
    \/ \E c \in Cids, resp \in Responses : Get(c, resp)

(* ---------------- carToFileStream: ingestion of the archive ------------- *)
(* A section of the archive: a framed (CID, data) pair, or bytes that do    *)
(* not parse as a section.                                                  *)
CarCids == [fn : {"h1"}, digest : Digests]
Corrupt == [corrupt |-> TRUE]
Sections == [cid : CarCids, data : BytesUpTo(MaxData)] \cup {Corrupt}
Archives == [headerOk : BOOLEAN,
             sections : UNION {[1..n -> Sections] : n \in 0..MaxBlocks}]

(* mutant: the reader is made with the option that trusts the archive.     *)
TrustedCARSet == TRUE

(* gocarv2.NewBlockReader(r) without options: TrustedCAR is off, so Next    *)
(* hashes every block it reads.                                             *)
TrustedCAR == FALSE

(* BlockReader.Next on the section at position p: io.EOF at the end of the  *)
(* stream, an error for a section that does not parse or (unless the reader *)
(* trusts the archive) whose data does not hash to its CID, else the block. *)
carNext(a, p) ==
    IF p > Len(a.sections) THEN [blk |-> Nil, err |-> "EOF"]
    ELSE IF a.sections[p] = Corrupt THEN [blk |-> Nil, err |-> "malformed section"]
    ELSE IF ~TrustedCAR /\ ~HashMatches(a.sections[p].cid, a.sections[p].data)
        THEN [blk |-> Nil, err |-> "mismatch in content integrity"]
    ELSE [blk |-> a.sections[p], err |-> "none"]

(* blockstore.Put over the map datastore: an entry whose key is already     *)
(* there is left as it is.                                                  *)
bsPut(store, blk) ==
    IF \E e \in store : e[1] = blk.cid THEN store ELSE store \cup {<<blk.cid, blk.data>>}

NoStream == <<-1>>

(* ---------------- carToFileStream: the nodes in the store --------------- *)
(* The first byte of a block's data is the type of the node: 0 a file with  *)
(* its bytes inline (as is the empty block), 1 a directory, 2 a file made   *)
(* of the chunks it links to, 3 a symbolic link, anything else a node that  *)
(* is no UnixFS node.  The bytes after the first are the inline bytes, the  *)
(* links, or the target of the symbolic link.                               *)
DagCidSeq == <<[fn |-> "h1", digest |-> 0], [fn |-> "h1", digest |-> 1],
               [fn |-> "h2", digest |-> 0]>>
DagCids == Range(DagCidSeq)
LinkCid(l) == DagCidSeq[(l % 3) + 1]
LinkNames == <<"a", "b">>
SegLists == {<<>>, <<"a">>, <<"b", "a">>}

(* the typed node a block decodes to                                        *)
NodeKind(data) ==
    IF data # <<>> /\ data[1] = 1 THEN "directory"
    ELSE IF data # <<>> /\ data[1] = 3 THEN "symlink"
    ELSE IF data # <<>> /\ data[1] > 3 THEN "other"
    ELSE "file"

IsChunked(data) == data # <<>> /\ data[1] = 2
Links(data) ==
    IF data # <<>> /\ data[1] \in {1, 2}
    THEN [j \in 1..(Len(data) - 1) |-> LinkCid(data[j + 1])]
    ELSE <<>>
Inline(data) == IF data # <<>> /\ data[1] \in {0, 3} THEN Tail(data) ELSE <<>>

(* the link of a directory node that carries the name seg, if it has one    *)
HasLink(data, seg) ==
    /\ NodeKind(data) = "directory"
    /\ \E j \in 1..Len(Links(data)) : j <= Len(LinkNames) /\ LinkNames[j] = seg
LinkTo(data, seg) ==
    Links(data)[CHOOSE j \in 1..Len(Links(data)) : j <= Len(LinkNames) /\ LinkNames[j] = seg]

(* blockstore.Has and Get over the entries of the store                     *)
InStore(store, c) == \E e \in store : e[1] = c
Lookup(store, c) == (CHOOSE e \in store : e[1] = c)[2]

(* mutant: the block service is given an exchange that asks the network.    *)
ExchangeOnline == "online"

(* blockservice.New(blockStore, offline.Exchange(blockStore)): a block that *)
(* is not in the store is looked for in the same store, and is not found.   *)
Exchange == "offline"

(* archives of well-formed blocks that hash to their CIDs, at most one per  *)
(* CID, in the order of the CIDs: the stores ingestion can leave behind.    *)
(* A link is the hash of the block it points to, so no block reaches        *)
(* itself through links.                                                    *)
DagDatas ==
    {<<>>, <<0, 0>>, <<0, 1>>, <<3, 0>>, <<4>>, <<1>>}
        \cup {<<k, l>> : k \in {1, 2}, l \in 0..2}
        \cup {<<k, l, m>> : k \in {1, 2}, l \in 0..2, m \in 0..2}
DagBlocks == {b \in [cid : DagCids, data : DagDatas] : HashMatches(b.cid, b.data)}
Edges(secs) ==
    UNION {{<<secs[i].cid, Links(secs[i].data)[j]>> : j \in 1..Len(Links(secs[i].data))} :
              i \in 1..Len(secs)}
Compose(R, S) ==
    {<<x, z>> \in DagCids \X DagCids : \E y \in DagCids : <<x, y>> \in R /\ <<y, z>> \in S}
Acyclic(secs) ==
    LET E == Edges(secs)
        E2 == Compose(E, E)
        E3 == Compose(E2, E)
    IN \A c \in DagCids : <<c, c>> \notin (E \cup E2 \cup E3)
Present(x) == x # Nil
DagArchives ==
    {a \in [headerOk : {TRUE},
            sections : {SelectSeq(<<x, y, z>>, Present) :
                            x \in {Nil} \cup {b \in DagBlocks : b.cid = DagCidSeq[1]},
                            y \in {Nil} \cup {b \in DagBlocks : b.cid = DagCidSeq[2]},
                            z \in {Nil} \cup {b \in DagBlocks : b.cid = DagCidSeq[3]}}] :
        Acyclic(a.sections)}

CarInit ==
    /\ carPc = "idle"
    /\ carArchive = [headerOk |-> TRUE, sections |-> <<>>]
    /\ carPos = 0
    /\ carStore = {}
    /\ carPuts = <<>>
    /\ carErr = "none"
    /\ carRoot = [fn |-> "h1", digest |-> 0]
    /\ carStream = NoStream
    /\ carPath = <<>>
    /\ carSegs = <<>>
    /\ carCur = [fn |-> "h1", digest |-> 0]
    /\ carTodo = <<>>
    /\ carOut = <<>>
    /\ carNetReq = FALSE
    /\ carStoreClosed = FALSE

(* carToFileStream is entered with the response stream and the immutable    *)
(* path (root CID and segments); a fresh store is made, its Close calls are *)
(* deferred, and the archive header is read.                                *)
CarOpen(a, root, segs) ==
    /\ carPc = "idle"
    /\ carArchive' = a
    /\ carRoot' = root
    /\ carPath' = segs
    /\ carSegs' = segs
    /\ carCur' = root
    /\ carPc' = IF a.headerOk THEN "loop" ELSE "failed"
    /\ carErr' = IF a.headerOk THEN "none" ELSE "error creating car reader"
    /\ carStoreClosed' = ~a.headerOk
    /\ UNCHANGED <<carPos, carStore, carPuts, carStream, carTodo, carOut, carNetReq,
                   busVars, pxVars, rpVars, hsVars, rfVars>>

(* mutant: an error of car.Next() skips the section instead of returning.   *)
CarLoopSkipping ==
    /\ carPc = "loop"
    /\ LET r == carNext(carArchive, carPos + 1) IN
        IF r.err # "none" /\ r.err # "EOF"
        THEN /\ carPos' = carPos + 1
             /\ UNCHANGED <<carPc, carErr, carStore, carPuts, carStoreClosed>>
        ELSE IF r.blk = Nil
        THEN /\ carPc' = "loaded"
             /\ UNCHANGED <<carPos, carStore, carPuts, carErr, carStoreClosed>>
        ELSE /\ carStore' = bsPut(carStore, r.blk)
             /\ carPuts' = Append(carPuts, r.blk)
             /\ carPos' = carPos + 1
             /\ UNCHANGED <<carPc, carErr, carStoreClosed>>
    /\ UNCHANGED <<carArchive, carRoot, carStream, carPath, carSegs, carCur, carTodo, carOut,
                   carNetReq, busVars, pxVars, rpVars, hsVars, rfVars>>

(* One turn of the loop: car.Next(), then return on an error other than     *)
(* io.EOF, break when there is no block, else blockStore.Put.               *)
CarLoop ==
    /\ carPc = "loop"
    /\ LET r == carNext(carArchive, carPos + 1) IN
        IF r.err # "none" /\ r.err # "EOF"
        THEN /\ carPc' = "failed"
             /\ carErr' = "error reading block from car"
             /\ carPos' = carPos + 1
             /\ carStoreClosed' = TRUE
             /\ UNCHANGED <<carStore, carPuts>>
        ELSE IF r.blk = Nil
        THEN /\ carPc' = "loaded"
             /\ UNCHANGED <<carPos, carStore, carPuts, carErr, carStoreClosed>>
        ELSE /\ carStore' = bsPut(carStore, r.blk)
             /\ carPuts' = Append(carPuts, r.blk)
             /\ carPos' = carPos + 1
             /\ UNCHANGED <<carPc, carErr, carStoreClosed>>
    /\ UNCHANGED <<carArchive, carRoot, carStream, carPath, carSegs, carCur, carTodo, carOut,
                   carNetReq, busVars, pxVars, rpVars, hsVars, rfVars>>

(* resolver.ResolveToLastNode(ctx, imPath), one segment at a time: the node *)
(* of the current CID is loaded through the block service and the link      *)
(* named by the next segment is followed.  With no segment left the current *)
(* CID is the result.                                                       *)
CarWalk ==
    /\ carPc = "loaded"
    /\ IF carSegs = <<>>
       THEN /\ carPc' = "resolved"
            /\ UNCHANGED <<carErr, carSegs, carCur, carNetReq, carStoreClosed>>
       ELSE IF ~InStore(carStore, carCur)
       THEN /\ carPc' = "failed"
            /\ carErr' = "failed to resolve"
            /\ carNetReq' = (carNetReq \/ Exchange # "offline")
            /\ carStoreClosed' = TRUE
            /\ UNCHANGED <<carSegs, carCur>>
       ELSE IF HasLink(Lookup(carStore, carCur), Head(carSegs))
       THEN /\ carCur' = LinkTo(Lookup(carStore, carCur), Head(carSegs))
            /\ carSegs' = Tail(carSegs)
            /\ UNCHANGED <<carPc, carErr, carNetReq, carStoreClosed>>
       ELSE /\ carPc' = "failed"
            /\ carErr' = "failed to resolve"
            /\ carStoreClosed' = TRUE
            /\ UNCHANGED <<carSegs, carCur, carNetReq>>
    /\ UNCHANGED <<carArchive, carPos, carStore, carPuts, carRoot, carStream, carPath,
                   carTodo, carOut, busVars, pxVars, rpVars, hsVars, rfVars>>

(* mutant: the node of the root CID is loaded instead of the resolved one.  *)
CarResolveRoot ==
    /\ carPc = "resolved"
    /\ carStoreClosed' = TRUE
    /\ IF ~InStore(carStore, carRoot)
       THEN /\ carPc' = "failed"
            /\ carErr' = "failed to resolve"
            /\ carNetReq' = (carNetReq \/ Exchange # "offline")
            /\ UNCHANGED <<carStream, carTodo>>
       ELSE LET data == Lookup(carStore, carRoot) IN
            /\ UNCHANGED carNetReq
            /\ IF NodeKind(data) = "file"
               THEN /\ carPc' = "returned"
                    /\ carStream' = data
                    /\ carTodo' = <<carRoot>>
                    /\ UNCHANGED carErr
               ELSE IF NodeKind(data) = "symlink"
               THEN /\ carPc' = "returned"
                    /\ carStream' = data
                    /\ carTodo' = <<[text |-> Inline(data)]>>
                    /\ UNCHANGED carErr
               ELSE /\ carPc' = "failed"
                    /\ carErr' = IF NodeKind(data) = "directory"
                                 THEN "unexpected unixfs node type"
                                 ELSE "error building unixfs file"
                    /\ UNCHANGED <<carStream, carTodo>>
    /\ UNCHANGED <<carArchive, carPos, carStore, carPuts, carRoot, carPath, carSegs, carCur,
                   carOut, busVars, pxVars, rpVars, hsVars, rfVars>>

(* After ResolveToLastNode: dagService.Get(ctx, cid) loads the node from    *)
(* the local store only (offline exchange); unixfile.NewUnixfsFile builds   *)
(* a reader over a file node, a link file over a symbolic link, a directory *)
(* over a directory node and fails on any other node; what it built is      *)
(* returned if it is a files.File, which the reader and the link file are.  *)
(* The deferred Close calls of the store run at every return.               *)
CarResolve ==
    /\ carPc = "resolved"
    /\ carStoreClosed' = TRUE
    /\ IF ~InStore(carStore, carCur)
       THEN /\ carPc' = "failed"
            /\ carErr' = "failed to resolve"
            /\ carNetReq' = (carNetReq \/ Exchange # "offline")
            /\ UNCHANGED <<carStream, carTodo>>
       ELSE LET data == Lookup(carStore, carCur) IN
            /\ UNCHANGED carNetReq
            /\ IF NodeKind(data) = "file"
               THEN /\ carPc' = "returned"
                    /\ carStream' = data
                    /\ carTodo' = <<carCur>>
                    /\ UNCHANGED carErr
               ELSE IF NodeKind(data) = "symlink"
               THEN /\ carPc' = "returned"
                    /\ carStream' = data
                    /\ carTodo' = <<[text |-> Inline(data)]>>
                    /\ UNCHANGED carErr
               ELSE /\ carPc' = "failed"
                    /\ carErr' = IF NodeKind(data) = "directory"
                                 THEN "unexpected unixfs node type"
                                 ELSE "error building unixfs file"
                    /\ UNCHANGED <<carStream, carTodo>>
    /\ UNCHANGED <<carArchive, carPos, carStore, carPuts, carRoot, carPath, carSegs, carCur,
                   carOut, busVars, pxVars, rpVars, hsVars, rfVars>>

(* The caller reads the returned stream (io.Copy in fetch).  The reader     *)
(* walks the file's nodes depth first, loading each from the block service  *)
(* when it comes to it: a node with inline bytes gives its bytes, a node    *)
(* made of chunks is replaced by its links, in order.  The map datastore's  *)
(* Close does nothing, so the blocks are still read after it.               *)
CarRead ==
    /\ carPc = "returned"
    /\ IF carTodo = <<>>
       THEN /\ carPc' = "eof"
            /\ UNCHANGED <<carTodo, carOut, carNetReq>>
       ELSE IF "text" \in DOMAIN Head(carTodo)
       THEN /\ carOut' = carOut \o Head(carTodo).text
            /\ carTodo' = Tail(carTodo)
            /\ UNCHANGED <<carPc, carNetReq>>
       ELSE IF ~InStore(carStore, Head(carTodo))
       THEN /\ carPc' = "readFailed"
            /\ carNetReq' = (carNetReq \/ Exchange # "offline")
            /\ UNCHANGED <<carTodo, carOut>>
       ELSE LET data == Lookup(carStore, Head(carTodo)) IN
            /\ UNCHANGED carNetReq
            /\ IF NodeKind(data) # "file"
               THEN /\ carPc' = "readFailed"
                    /\ UNCHANGED <<carTodo, carOut>>
               ELSE IF IsChunked(data)
               THEN /\ carTodo' = Links(data) \o Tail(carTodo)
                    /\ UNCHANGED <<carPc, carOut>>
               ELSE /\ carOut' = carOut \o Inline(data)
                    /\ carTodo' = Tail(carTodo)
                    /\ UNCHANGED carPc
    /\ UNCHANGED <<carArchive, carPos, carStore, carPuts, carErr, carRoot, carStream, carPath,
                   carSegs, carCur, carStoreClosed, busVars, pxVars, rpVars, hsVars, rfVars>>

CarNext ==
    \/ (carPc = "idle" /\
        \E a \in Archives, root \in CarCids, segs \in SegLists : CarOpen(a, root, segs))
    \/ CarLoop
    \/ CarWalk
    \/ CarResolve

(* materialization over the stores ingestion can leave behind, and the      *)
(* reading of the returned stream                                           *)
MatNext ==
    \/ (carPc = "idle" /\
        \E a \in DagArchives, root \in DagCids, segs \in SegLists : CarOpen(a, root, segs))
    \/ CarLoop
    \/ CarWalk
    \/ CarResolve
    \/ CarRead

(* ------------- fetcher.resolvePath, resolveIPNS, resolveDNSLink --------- *)
(* A path is a namespace, a root segment and the segments after it.  Root   *)
(* segments of /ipns/ paths either parse as an IPNS name or are a domain.   *)
Names == {"nA", "nB"}
Domains == {"d.com"}
RootCids == {"c1", "c2"}
Rests == {<<>>, <<"a">>}
ImmutablePaths == [ns : {"ipfs"}, root : RootCids, rest : Rests]
MutablePaths == [ns : {"ipns"}, root : Names \cup Domains, rest : Rests]
Paths == ImmutablePaths \cup MutablePaths
NoPath == [ns |-> "none", root |-> "", rest |-> <<>>]

(* p.Mutable(): the namespace is /ipns/                                     *)
Mutable(p) == p.ns = "ipns"

(* ipns.NameFromString(p.Segments()[1])                                     *)
NameFromString(seg) == [name |-> seg, err |-> seg \notin Names]

(* what the gateway answers to the request for a name record: whether the   *)
(* request succeeds, whether the body unmarshals, whether the record        *)
(* validates against the name, and the value the record carries (NoPath:    *)
(* a value that is not a path)                                              *)
RecordAnswers == [http : {"ok", "error"}, parses : BOOLEAN, valid : BOOLEAN,
                  value : Paths \cup {NoPath}]

(* what the DNS resolver answers: an error (no DNSLink, recursion limit) or *)
(* the content root the domain resolves to                                  *)
DnsAnswers == {"error"} \cup RootCids

(* mutant: the record's value is returned without ValidateWithName.         *)
resolveIPNSUnvalidated(ans) ==
    IF ans.http # "ok" THEN [path |-> NoPath, err |-> "http"]
    ELSE IF ~ans.parses THEN [path |-> NoPath, err |-> "unmarshal"]
    ELSE IF ans.value = NoPath THEN [path |-> NoPath, err |-> "value"]
    ELSE [path |-> ans.value, err |-> "none"]

(* resolveIPNS: httpRequest, ReadAll, UnmarshalRecord, ValidateWithName,    *)
(* then rec.Value()                                                         *)
resolveIPNS(ans) ==
    IF ans.http # "ok" THEN [path |-> NoPath, err |-> "http"]
    ELSE IF ~ans.parses THEN [path |-> NoPath, err |-> "unmarshal"]
    ELSE IF ~ans.valid THEN [path |-> NoPath, err |-> "validation"]
    ELSE IF ans.value = NoPath THEN [path |-> NoPath, err |-> "value"]
    ELSE [path |-> ans.value, err |-> "none"]

(* resolveDNSLink: the DNS resolver follows DNSLink records itself until an *)
(* immutable path or an error; the segments after the root are kept.        *)
resolveDNSLink(p, ans) ==
    IF ans = "error" THEN [path |-> NoPath, err |-> "dns"]
    ELSE [path |-> [ns |-> "ipfs", root |-> ans, rest |-> p.rest], err |-> "none"]

(* mutant: the loop has no condition.                                       *)
LoopCondNone(p) == TRUE

(* the condition of the loop of resolvePath: for p.Mutable()                *)
LoopCond(p) == Mutable(p)

ResolveInit ==
    /\ rpPc = "idle"
    /\ rpInput = NoPath
    /\ rpPath = NoPath
    /\ rpResult = NoPath
    /\ rpErr = "none"
    /\ rpLookups = FALSE
    /\ rpBadRecord = FALSE
    /\ rpCarReq = FALSE
    /\ rpPrev = NoPath

(* fetch(ctx, p, output) is called: resolvePath(ctx, p) is entered          *)
FetchStart(p) ==
    /\ rpPc \in {"idle", "failed", "car"}
    /\ rpPc' = "resolving"
    /\ rpInput' = p
    /\ rpPath' = p
    /\ rpResult' = NoPath
    /\ rpErr' = "none"
    /\ rpLookups' = FALSE
    /\ rpBadRecord' = FALSE
    /\ rpCarReq' = FALSE
    /\ rpPrev' = NoPath
    /\ UNCHANGED <<busVars, pxVars, carVars, hsVars, rfVars>>

(* resolvePath is called again on the path it returned                      *)
ResolveAgain ==
    /\ rpPc = "resolved"
    /\ rpPc' = "resolving"
    /\ rpInput' = rpResult
    /\ rpPath' = rpResult
    /\ rpPrev' = rpResult
    /\ rpResult' = NoPath
    /\ rpErr' = "none"
    /\ rpLookups' = FALSE
    /\ rpBadRecord' = FALSE
    /\ rpCarReq' = FALSE
    /\ UNCHANGED <<busVars, pxVars, carVars, hsVars, rfVars>>

(* one turn of the loop whose root segment parses as a name                 *)
ResolveIPNSStep(ans) ==
    /\ rpPc = "resolving"
    /\ LoopCond(rpPath)
    /\ ~NameFromString(rpPath.root).err
    /\ LET r == resolveIPNS(ans) IN
        /\ rpLookups' = TRUE
        /\ rpBadRecord' = (rpBadRecord \/ (ans.http = "ok" /\ ans.parses /\ ~ans.valid))
        /\ IF r.err # "none"
           THEN /\ rpPc' = "failed"
                /\ rpErr' = r.err
                /\ UNCHANGED rpPath
           ELSE /\ rpPath' = r.path
                /\ UNCHANGED <<rpPc, rpErr>>
    /\ UNCHANGED <<rpInput, rpResult, rpCarReq, rpPrev, busVars, pxVars, carVars, hsVars, rfVars>>

(* one turn of the loop whose root segment does not parse as a name         *)
ResolveDNSStep(ans) ==
    /\ rpPc = "resolving"
    /\ LoopCond(rpPath)
    /\ NameFromString(rpPath.root).err
    /\ LET r == resolveDNSLink(rpPath, ans) IN
        /\ rpLookups' = TRUE
        /\ IF r.err # "none"
           THEN /\ rpPc' = "failed"
                /\ rpErr' = r.err
                /\ UNCHANGED rpPath
           ELSE /\ rpPath' = r.path
                /\ UNCHANGED <<rpPc, rpErr>>
    /\ UNCHANGED <<rpInput, rpResult, rpBadRecord, rpCarReq, rpPrev, busVars, pxVars, carVars, hsVars, rfVars>>

(* the loop is left: return path.NewImmutablePath(p)                        *)
ResolveReturn ==
    /\ rpPc = "resolving"
    /\ ~LoopCond(rpPath)
    /\ rpPc' = "resolved"
    /\ rpResult' = rpPath
    /\ UNCHANGED <<rpInput, rpPath, rpErr, rpLookups, rpBadRecord, rpCarReq, rpPrev,
                   busVars, pxVars, carVars, hsVars, rfVars>>

(* fetch goes on after resolvePath: httpRequest for the archive             *)
FetchCar ==
    /\ rpPc = "resolved"
    /\ rpPc' = "car"
    /\ rpCarReq' = TRUE
    /\ UNCHANGED <<rpInput, rpPath, rpResult, rpErr, rpLookups, rpBadRecord, rpPrev,
                   busVars, pxVars, carVars, hsVars, rfVars>>

(* the steps resolvePath takes by itself once it is entered                 *)
ResolveStep ==
    \/ \E ans \in RecordAnswers : ResolveIPNSStep(ans)
    \/ \E ans \in DnsAnswers : ResolveDNSStep(ans)
    \/ ResolveReturn

ResolveNext ==
    \/ \E p \in Paths : FetchStart(p)
    \/ ResolveAgain
    \/ \E ans \in RecordAnswers : ResolveIPNSStep(ans)
    \/ \E ans \in DnsAnswers : ResolveDNSStep(ans)
    \/ ResolveReturn
    \/ FetchCar

(* ------------------ fetcher.httpRequest, newLimitReadCloser ------------- *)
MaxRecordSize == 1      \* ipns.MaxRecordSize (10 KiB), at the scale of the bodies here
Limits == 0..MaxLimit
BufSizes == 1..(MaxBody + 1)
Min(a, b) == IF a < b THEN a ELSE b
NoErr == [kind |-> "none", status |-> 0, body |-> Nil]
NoReader == [budgets |-> <<>>, closer |-> "none"]

(* mutant: the reader is handed on as it is, without a LimitedReader.       *)
newReadCloserUnlimited(rc, limit) == rc

(* newLimitReadCloser(rc, limit): Reader is io.LimitReader(rc, limit),      *)
(* Closer is rc itself                                                      *)
newLimitReadCloser(rc, limit) ==
    [budgets |-> <<limit>> \o rc.budgets, closer |-> rc.closer]

(* resp.Body                                                                *)
Body == [budgets |-> <<>>, closer |-> "body"]

(* httpRequest: an error when Do fails; for a status of 400 or more the     *)
(* body is read to its end and closed and the error carries resp.Status and *)
(* the body text; for every other status the body is returned, wrapped in   *)
(* a limit reader when f.limit > 0.                                         *)
httpRequest(limit, resp) ==
    IF resp.doErr
    THEN [rc |-> NoReader, closes |-> 0,
          err |-> [kind |-> "http.DefaultClient.Do error", status |-> 0, body |-> Nil]]
    ELSE IF resp.status >= 400
    THEN [rc |-> NoReader, closes |-> 1,
          err |-> [kind |-> "GET error", status |-> resp.status,
                   body |-> [text |-> resp.body]]]
    ELSE [rc |-> IF limit > 0 THEN newLimitReadCloser(Body, limit) ELSE Body,
          closes |-> 0, err |-> NoErr]

(* how many bytes a Read with a buffer of n bytes may ask of the body: a    *)
(* LimitedReader with N <= 0 answers io.EOF itself, else cuts the buffer    *)
(* to N before it reads from the reader inside.                             *)
RECURSIVE Allowed(_, _)
Allowed(budgets, n) ==
    IF budgets = <<>> THEN n
    ELSE IF Head(budgets) <= 0 THEN 0
    ELSE Allowed(Tail(budgets), Min(n, Head(budgets)))

StreamInit ==
    /\ hsPc = "idle"
    /\ hsKind = "archive"
    /\ hsLimit = 0
    /\ hsResp = NoResponse
    /\ hsStream = NoReader
    /\ hsPos = 0
    /\ hsOut = <<>>
    /\ hsEOF = FALSE
    /\ hsBodyClosed = FALSE
    /\ hsCloses = 0
    /\ hsErr = NoErr

(* a fetcher with f.limit = limit makes a request: for the archive (fetch)  *)
(* or for a name record (resolveIPNS, which puts the stream it gets inside  *)
(* a reader limited to ipns.MaxRecordSize)                                  *)
HttpRequest(kind, limit, resp) ==
    /\ hsPc \in {"idle", "closed", "failed", "finished"}
    /\ LET r == httpRequest(limit, resp) IN
        /\ hsPc' = IF r.err = NoErr THEN "open" ELSE "failed"
        /\ hsStream' = IF r.err = NoErr /\ kind = "record"
                       THEN newLimitReadCloser(r.rc, MaxRecordSize)
                       ELSE r.rc
        /\ hsBodyClosed' = (r.closes > 0)
        /\ hsCloses' = r.closes
        /\ hsErr' = r.err
    /\ hsKind' = kind
    /\ hsLimit' = limit
    /\ hsResp' = resp
    /\ hsPos' = 0
    /\ hsOut' = <<>>
    /\ hsEOF' = FALSE
    /\ UNCHANGED <<busVars, pxVars, carVars, rpVars, rfVars>>

(* the consumer calls Read with a buffer of n bytes; the body gives m of    *)
(* the bytes it has left, at least one and no more than asked               *)
StreamRead(n, m) ==
    /\ hsPc = "open"
    /\ ~hsEOF
    /\ LET a == Allowed(hsStream.budgets, n)
           left == Len(hsResp.body) - hsPos
       IN IF a = 0 \/ left = 0
          THEN /\ m = 1
               /\ hsEOF' = TRUE
               /\ UNCHANGED <<hsStream, hsPos, hsOut>>
          ELSE /\ m <= Min(a, left)
               /\ hsStream' = [hsStream EXCEPT !.budgets =
                                  [j \in 1..Len(hsStream.budgets) |-> hsStream.budgets[j] - m]]
               /\ hsPos' = hsPos + m
               /\ hsOut' = hsOut \o SubSeq(hsResp.body, hsPos + 1, hsPos + m)
               /\ UNCHANGED hsEOF
    /\ UNCHANGED <<hsPc, hsKind, hsLimit, hsResp, hsBodyClosed, hsCloses, hsErr,
                   busVars, pxVars, carVars, rpVars, rfVars>>

(* the consumer closes the stream: the Closer of the outermost wrapper      *)
StreamClose ==
    /\ hsPc = "open"
    /\ hsPc' = "closed"
    /\ hsBodyClosed' = (hsBodyClosed \/ hsStream.closer = "body")
    /\ hsCloses' = IF hsStream.closer = "body" THEN hsCloses + 1 ELSE hsCloses
    /\ UNCHANGED <<hsKind, hsLimit, hsResp, hsStream, hsPos, hsOut, hsEOF, hsErr,
                   busVars, pxVars, carVars, rpVars, rfVars>>

(* fetch hands the archive stream to carToFileStream, whose first statement *)
(* is `defer r.Close()`: however far the archive was read and whatever it   *)
(* returns, the stream is closed once when it returns.                      *)
carToFileStreamReturn ==
    /\ hsPc = "open"
    /\ hsKind = "archive"
    /\ hsPc' = "finished"
    /\ hsBodyClosed' = (hsBodyClosed \/ hsStream.closer = "body")
    /\ hsCloses' = IF hsStream.closer = "body" THEN hsCloses + 1 ELSE hsCloses
    /\ UNCHANGED <<hsKind, hsLimit, hsResp, hsStream, hsPos, hsOut, hsEOF, hsErr,
                   busVars, pxVars, carVars, rpVars, rfVars>>

(* resolveIPNS returns once io.ReadAll has come to the end of the limited   *)
(* stream; it has no call of rc.Close() on any of its paths.                *)
resolveIPNSReturn ==
    /\ hsPc = "open"
    /\ hsKind = "record"
    /\ hsEOF
    /\ hsPc' = "finished"
    /\ UNCHANGED <<hsKind, hsLimit, hsResp, hsStream, hsPos, hsOut, hsEOF, hsBodyClosed,
                   hsCloses, hsErr, busVars, pxVars, carVars, rpVars, rfVars>>

StreamNext ==
    \/ (hsPc \in {"idle", "closed", "failed", "finished"} /\
        \E kind \in {"archive", "record"}, limit \in Limits, resp \in Responses :
            HttpRequest(kind, limit, resp))
    \/ \E n \in BufSizes, m \in BufSizes : StreamRead(n, m)
    \/ StreamClose

(* the requests of both clients: the fetcher's httpRequest and the proxy's  *)
(* archive and raw-block requests.  The fetcher and the proxy are separate  *)
(* programs that share nothing: a behaviour exercises one of them.          *)
HttpNext ==
    \/ (pxCall.op = "none" /\ hsPc \in {"idle", "closed", "failed", "finished"} /\
        \E kind \in {"archive", "record"}, limit \in Limits, resp \in Responses :
            HttpRequest(kind, limit, resp))
    \/ (pxCall.op = "none" /\ StreamClose)
    \/ (hsPc = "idle" /\ \E resp \in Responses, cbErr \in BOOLEAN : Fetch(resp, cbErr))
    \/ (hsPc = "idle" /\ \E c \in Cids, resp \in Responses : Get(c, resp))

(* the requests of both clients with the code that consumes each response: *)
(* fetch and resolveIPNS for the fetcher, Fetch and the raw-block fetch     *)
(* (through Get) for the proxy.                                             *)
BodyNext ==
    \/ (pxCall.op = "none" /\ hsPc \in {"idle", "closed", "failed", "finished"} /\
        \E kind \in {"archive", "record"}, limit \in Limits, resp \in Responses :
            HttpRequest(kind, limit, resp))
    \/ \E n \in BufSizes, m \in BufSizes : StreamRead(n, m)
    \/ carToFileStreamReturn
    \/ resolveIPNSReturn
    \/ (hsPc = "idle" /\ \E resp \in Responses, cbErr \in BOOLEAN : Fetch(resp, cbErr))
    \/ (hsPc = "idle" /\ \E c \in Cids, resp \in Responses : Get(c, resp))

(* ------------------------------ files.ReaderFile ------------------------ *)
Readers == [seekable : BOOLEAN, content : BytesUpTo(MaxBody), pos : {0}, closed : {FALSE}]
Offsets == (0 - MaxBody)..MaxBody
Whences == {0, 1, 2}
MaxPos == MaxBody + 1

(* Seek of a reader that is an io.Seeker: the new position from the start,  *)
(* the current position or the end; a negative position is an error and    *)
(* leaves the position where it was.                                        *)
seekerSeek(r, offset, whence) ==
    LET base == IF whence = 0 THEN 0 ELSE IF whence = 1 THEN r.pos ELSE Len(r.content)
        np == base + offset
    IN IF np < 0 THEN [ret |-> 0, err |-> "negative position", pos |-> r.pos]
       ELSE [ret |-> np, err |-> "none", pos |-> np]

Called(op, ret, err, delegated, before, after) ==
    [op |-> op, ret |-> ret, err |-> err, delegated |-> delegated,
     posBefore |-> before, posAfter |-> after]

ReaderFileInit ==
    /\ rfReader = [seekable |-> FALSE, content |-> <<>>, pos |-> 0, closed |-> FALSE]
    /\ rfCall = Called("none", 0, "none", FALSE, 0, 0)

(* NewReaderFile(reader, stat): a ReaderFile around the reader              *)
NewReaderFile(reader) ==
    /\ rfReader' = reader
    /\ rfCall' = Called("NewReaderFile", 0, "none", FALSE, reader.pos, reader.pos)
    /\ UNCHANGED <<busVars, pxVars, carVars, rpVars, hsVars>>

(* mutant: the reader is never asked.                                       *)
SeekNeverDelegates(offset, whence) ==
    /\ UNCHANGED rfReader
    /\ rfCall' = Called("Seek", 0, "ErrNotSupported", FALSE, rfReader.pos, rfReader.pos)
    /\ UNCHANGED <<busVars, pxVars, carVars, rpVars, hsVars>>

(* Seek: s.Seek(offset, whence) when the reader is an io.Seeker, else       *)
(* 0 and ErrNotSupported                                                    *)
Seek(offset, whence) ==
    /\ IF rfReader.seekable
       THEN LET r == seekerSeek(rfReader, offset, whence) IN
            /\ r.pos <= MaxPos
            /\ rfReader' = [rfReader EXCEPT !.pos = r.pos]
            /\ rfCall' = Called("Seek", r.ret, r.err, TRUE, rfReader.pos, r.pos)
       ELSE /\ UNCHANGED rfReader
            /\ rfCall' = Called("Seek", 0, "ErrNotSupported", FALSE, rfReader.pos, rfReader.pos)
    /\ UNCHANGED <<busVars, pxVars, carVars, rpVars, hsVars>>

(* Read: f.reader.Read(p) with a buffer of n bytes                          *)
Read(n) ==
    /\ LET left == IF rfReader.pos >= Len(rfReader.content) THEN 0
                   ELSE Len(rfReader.content) - rfReader.pos
           m == Min(n, left)
       IN /\ rfReader' = [rfReader EXCEPT !.pos = rfReader.pos + m]
          /\ rfCall' = Called("Read", m, IF left = 0 THEN "EOF" ELSE "none", TRUE,
                              rfReader.pos, rfReader.pos + m)
    /\ UNCHANGED <<busVars, pxVars, carVars, rpVars, hsVars>>

(* NextFile: return "", nil, ErrNotDirectory                                *)
NextFile ==
    /\ UNCHANGED rfReader
    /\ rfCall' = Called("NextFile", 0, "ErrNotDirectory", FALSE, rfReader.pos, rfReader.pos)
    /\ UNCHANGED <<busVars, pxVars, carVars, rpVars, hsVars>>

ReaderFileNext ==
    \/ \E reader \in Readers : NewReaderFile(reader)
    \/ \E offset \in Offsets, whence \in Whences : Seek(offset, whence)
    \/ \E n \in BufSizes : Read(n)
    \/ NextFile

Init == BusInit /\ ProxyInit /\ CarInit /\ ResolveInit /\ StreamInit /\ ReaderFileInit

Next ==
    \/ \E s \in Subs, ks \in KeyLists : Subscribe(s, ks)
    \/ \E k \in Keys : Publish(k)
    \/ BusRecvPub
    \/ BusSend
    \/ Shutdown
    \/ \E s \in Subs : Cancel(s)
    \/ \E s \in Subs : WorkerCancelled(s)
    \/ \E s \in Subs : WorkerRecv(s)
    \/ \E s \in Subs : WorkerRecvClosed(s)
    \/ \E s \in Subs : WorkerForward(s)
    \/ \E s \in Subs : WorkerUnsub(s)

Spec == Init /\ [][Next]_vars

(* The Go scheduler runs every runnable goroutine: the pubsub goroutine and *)
(* each forwarding goroutine take their next step when it stays possible.   *)
(* Callers (Subscribe, Publish, Shutdown, cancellation, reads) owe nothing. *)
FairSpec ==
    /\ Init /\ [][Next]_vars
    /\ WF_vars(BusStep)
    /\ \A s \in Subs : WF_vars(WorkerStep(s))

ProxySpec == Init /\ [][ProxyNext]_vars

ProxyWriteSpec == Init /\ [][ProxyWriteNext]_vars

CarSpec == Init /\ [][CarNext]_vars

MatSpec == Init /\ [][MatNext]_vars

ResolveSpec == Init /\ [][ResolveNext]_vars

StreamSpec == Init /\ [][StreamNext]_vars

HttpSpec == Init /\ [][HttpNext]_vars

BodySpec == Init /\ [][BodyNext]_vars

ReaderFileSpec == Init /\ [][ReaderFileNext]_vars

(* resolvePath runs on the goroutine of its caller, and the gateway and the *)
(* DNS resolver answer every request: the next step of the loop is taken.   *)
FairResolveSpec ==
    /\ Init /\ [][ResolveNext]_vars
    /\ WF_vars(ResolveStep)

(* ============================ claims: the bus =========================== *)
Live(s) == pc[s] \in {"loop", "fwd", "unsub"}
ShutDown == busPc = "exited"

(* C2: the output channel of a subscription yields at most one block for    *)
(* each distinct requested key, whatever is published (the same key may be  *)
(* published several times).                                                *)
C2_AtMostOneBlockPerKey ==
    \A s \in Subs : \A a, b \in 1..Len(sent[s]) : a # b => sent[s][a] # sent[s][b]

(* C3: a published block is delivered to every subscription that was live   *)
(* and registered for its key when it was published (seen once the          *)
(* subscription has retired without cancellation or shutdown), and no block *)
(* is delivered to a subscription that did not request its key.             *)
C3_PublishReachesRegisteredSubscriptions ==
    \A s \in Subs :
        /\ Range(sent[s]) \subseteq Range(keys[s])
        /\ (pc[s] = "done" /\ ~cancelled[s] /\ ~ShutDown) => owed[s] \subseteq Range(sent[s])

(* C4: without cancellation and shutdown, the output channel is not closed  *)
(* while some requested key has not been delivered.                         *)
C4_ClosedOnlyAfterEveryKeyDelivered ==
    \A s \in Subs :
        (blockCloses[s] > 0 /\ ~cancelled[s] /\ ~ShutDown)
            => Range(keys[s]) \subseteq Range(sent[s])

(* C5: once the cancellation signal of a subscription has fired, its        *)
(* forwarding goroutine terminates, its registration is removed and its     *)
(* output channel is closed, under every interleaving with Publish calls    *)
(* and other subscriptions (shutdown set aside).                            *)
C5_CancelledSubscriptionRetires ==
    \A s \in Subs :
        (cancelled[s] /\ ~ShutDown) ~> (pc[s] = "done" \/ ShutDown)

(* C6: after Shutdown every subscription that was live has its output       *)
(* channel closed and its goroutine terminated.                             *)
C6_ShutdownRetiresSubscriptions ==
    \A s \in Subs : (ShutDown /\ Live(s)) ~> (pc[s] = "done")

(* C7: every Publish call returns, whatever the subscribers do (shutdown    *)
(* set aside).                                                              *)
C7_PublishReturns ==
    \A k \in Keys :
        (pubPending[k] > 0 /\ ~ShutDown) ~> (pubPending[k] = 0 \/ ShutDown)

(* C8: no send on a closed channel and no second close, for the output      *)
(* channel and for the channel registered with the pubsub package.          *)
C8_NoSendOnClosedNoDoubleClose ==
    /\ ~panicked
    /\ \A s \in Subs : blockCloses[s] <= 1

(* a retired subscription, its channel closed once, while a block with one  *)
(* of its keys is still being published and another subscription is live   *)
C8_Witness ==
    \E s, r \in Subs :
        /\ pc[s] = "done" /\ blockCloses[s] = 1 /\ sent[s] # <<>>
        /\ \E k \in Range(keys[s]) : pubPending[k] > 0
        /\ Live(r) /\ cancelled[r]

C1_WrongHashRejected ==
    (/\ pxCall.op \in {"Has", "Get", "GetSize"}
     /\ pxCall.validate
     /\ ~pxCall.resp.doErr
     /\ pxCall.resp.status = 200
     /\ ~HashMatches(pxCall.cid, pxCall.resp.body))
        => (/\ pxCall.err = "ErrWrongHash"
            /\ pxCall.has = FALSE
            /\ pxCall.blk = Nil
            /\ pxCall.size = 0)

(* GetSize with validation on got a non-empty body under a supported hash   *)
(* function whose digest is not the requested one                           *)
C1_Witness ==
    /\ pxCall.op = "GetSize"
    /\ pxCall.validate
    /\ ~pxCall.resp.doErr
    /\ pxCall.resp.status = 200
    /\ pxCall.resp.body # <<>>
    /\ pxCall.cid.fn = "h2"
    /\ ~HashMatches(pxCall.cid, pxCall.resp.body)
    /\ pxCall.err = "ErrWrongHash"

(* ========================= claims: CAR ingestion ======================== *)
IsBlock(sec) == sec # Corrupt
BadBlock(sec) == IsBlock(sec) /\ ~HashMatches(sec.cid, sec.data)
GoodBlock(sec) == IsBlock(sec) /\ HashMatches(sec.cid, sec.data)

(* the archive is a sequence of blocks and block i is the first one that    *)
(* fails hash verification                                                  *)
FirstBadAt(a, i) ==
    /\ a.headerOk
    /\ \A j \in 1..Len(a.sections) : IsBlock(a.sections[j])
    /\ i \in 1..Len(a.sections)
    /\ BadBlock(a.sections[i])
    /\ \A j \in 1..(i - 1) : GoodBlock(a.sections[j])

Entries(blks) == {<<blks[j].cid, blks[j].data>> : j \in 1..Len(blks)}

(* C9: when block i is the first to fail verification, blocks 1..i-1 are    *)
(* stored in stream order, block i is not stored, nothing after block i is  *)
(* read or stored, and the operation fails without a stream.                *)
C9_AbortsAtFirstBadBlock ==
    \A i \in 1..MaxBlocks :
        (carPc # "idle" /\ FirstBadAt(carArchive, i)) =>
            /\ carPos <= i
            /\ carPuts = SubSeq(carArchive.sections, 1, IF carPos < i THEN carPos ELSE i - 1)
            /\ carStore \subseteq Entries(carPuts)
            /\ \A j \in 1..Len(carPuts) : \E e \in carStore : e[1] = carPuts[j].cid
            /\ <<carArchive.sections[i].cid, carArchive.sections[i].data>> \notin carStore
            /\ carStream = NoStream
            /\ carPc \in {"loop", "failed"}
            /\ (carPc = "failed" => carPos = i /\ carErr = "error reading block from car")
            /\ (carPos = i => carPc = "failed")

(* [A, B, C] with B failing: the operation has failed with A stored         *)
C9_Witness ==
    /\ carPc = "failed"
    /\ Len(carArchive.sections) = 3
    /\ FirstBadAt(carArchive, 2)
    /\ GoodBlock(carArchive.sections[3])
    /\ Len(carPuts) = 1
    /\ carStore # {}

(* C10: every entry of the local block store hashes to its CID.             *)
C10_StoreHoldsVerifiedBlocks ==
    \A e \in carStore : HashMatches(e[1], e[2])

(* two blocks stored from an archive that also carried a block that does    *)
(* not hash to its CID                                                      *)
C10_Witness ==
    /\ Cardinality(carStore) = 2
    /\ \E j \in 1..Len(carArchive.sections) : BadBlock(carArchive.sections[j])

(* ========================= claims: path resolution ====================== *)
(* C11: resolvePath terminates for every input and every behaviour of the   *)
(* gateway and DNS: a call that has been entered comes to return, a path or *)
(* an error, even when the records point at each other in a cycle.          *)
C11_ResolvePathTerminates == (rpPc = "resolving") ~> (rpPc # "resolving")

(* C12: resolution is idempotent on an immutable path.  A call on an        *)
(* immutable path returns that path, without an error and without any       *)
(* record fetch or DNS lookup; resolving the result of a call again gives   *)
(* the same result.                                                         *)
C12_IdempotentOnImmutable ==
    /\ (rpPc # "idle" /\ ~Mutable(rpInput)) =>
          /\ ~rpLookups
          /\ rpPc # "failed"
          /\ rpPc \in {"resolved", "car"} => rpResult = rpInput
    /\ rpPrev # NoPath =>
          /\ rpPc # "failed"
          /\ rpPc \in {"resolved", "car"} => rpResult = rpPrev

(* a call on an immutable path has returned, and so has a second call on    *)
(* the result of a resolution through a name                                *)
C12_Witness ==
    /\ rpPc = "resolved"
    /\ rpPrev # NoPath
    /\ rpResult = rpPrev
    /\ ~Mutable(rpInput)

(* C13: once a record that fails validation against its name was fetched,   *)
(* the request has failed: no path is returned and no archive request is    *)
(* issued; the local path never takes the value of such a record.           *)
C13_InvalidRecordFails ==
    rpBadRecord =>
        /\ rpPc = "failed"
        /\ rpErr = "validation"
        /\ rpResult = NoPath
        /\ ~rpCarReq

(* a record that failed validation was fetched after a valid one had been   *)
(* followed                                                                 *)
C13_Witness ==
    /\ rpBadRecord
    /\ rpPc = "failed"
    /\ rpPath # rpInput


(* ==================== claims: the proxy's write operations ============== *)
WriteOps == {"Put", "PutMany", "DeleteBlock", "AllKeysChan"}

(* C14: Put, PutMany, DeleteBlock and AllKeysChan return the not-implemented *)
(* error for every argument and in every state, issue no request to a       *)
(* gateway and leave the gateway list and the validate flag as they were.   *)
C14_WriteOpsNotImplemented ==
    pxCall.op \in WriteOps =>
        /\ pxCall.err = "ErrNotImplemented"
        /\ pxAfter.requests = 0
        /\ ~pxAfter.handed
        /\ pxAfter.validate = pxCall.validate
        /\ pxAfter.gateways = pxCall.gateways

(* a delete was refused while validation was switched off                   *)
C14_Witness ==
    /\ pxCall.op = "DeleteBlock"
    /\ pxCall.err = "ErrNotImplemented"
    /\ ~pxCall.validate
    /\ ~validate


(* ======================= claims: HTTP status handling =================== *)
Is2xx(status) == 200 <= status /\ status < 300

(* C15: for every response to an archive, raw-block or name-record request, *)
(* a 2xx status is a success with the body handed to the consumer, and      *)
(* every other status is an error that carries the status and the body      *)
(* text, with no body handed to the consumer.                               *)
C15_Only2xxSucceeds ==
    /\ (hsPc # "idle" /\ ~hsResp.doErr) =>
          IF Is2xx(hsResp.status)
          THEN hsPc \in {"open", "closed"} /\ hsErr = NoErr
          ELSE /\ hsPc = "failed"
               /\ hsErr.status = hsResp.status
               /\ hsErr.body = [text |-> hsResp.body]
    /\ (pxCall.op \in {"Fetch", "Get"} /\ ~pxCall.resp.doErr) =>
          IF Is2xx(pxCall.resp.status)
          THEN pxAfter.handed /\ pxAfter.errStatus = 0
          ELSE /\ ~pxAfter.handed
               /\ pxAfter.errStatus = pxCall.resp.status
               /\ pxAfter.errBody = [text |-> pxCall.resp.body]

(* ============================ claims: the limit ========================= *)
(* C19: with a limit L > 0 the consumer of the stream httpRequest returns   *)
(* never reads more than L bytes; the reader of a name record never takes   *)
(* more than the maximum record size from the body; what is read is the     *)
(* start of the body; and closing the stream closes the response body.      *)
C19_LimitBoundsReads ==
    /\ (hsPc \in {"open", "closed"} /\ hsLimit > 0) => Len(hsOut) <= hsLimit
    /\ (hsPc \in {"open", "closed"} /\ hsKind = "record") =>
          /\ Len(hsOut) <= MaxRecordSize
          /\ hsPos <= MaxRecordSize
    /\ hsPc \in {"open", "closed"} => hsOut = SubSeq(hsResp.body, 1, hsPos)
    /\ hsPc = "closed" => hsBodyClosed

(* a stream with a limit below the length of the body was read to the end   *)
(* of its limit and closed                                                  *)
C19_Witness ==
    /\ hsPc = "closed"
    /\ hsLimit > 0
    /\ hsLimit < Len(hsResp.body)
    /\ Len(hsOut) = hsLimit
    /\ hsEOF
    /\ hsBodyClosed

(* ====================== claims: the response bodies ===================== *)
(* C22: when a request that got a response is finished, its response body   *)
(* has been closed exactly once: for the fetcher's archive and record       *)
(* requests (httpRequest, carToFileStream, resolveIPNS) and for the         *)
(* proxy's archive and raw-block requests (Fetch, fetch), on a non-success  *)
(* status, on a callback error and on success.                              *)
C22_BodyClosedExactlyOnce ==
    /\ (hsPc \in {"finished", "failed"} /\ ~hsResp.doErr) => hsCloses = 1
    /\ (pxCall.op \in {"Fetch", "Get", "Has", "GetSize"} /\ ~pxCall.resp.doErr)
           => pxAfter.closes = 1

(* ============================ claims: ReaderFile ======================== *)
(* C20: Seek hands the call to the reader exactly when the reader is an     *)
(* io.Seeker and then returns what the reader returned; otherwise it        *)
(* returns 0 and ErrNotSupported and the read position stays where it was.  *)
(* NextFile always fails with ErrNotDirectory.                              *)
C20_SeekDelegatesOrNotSupported ==
    /\ rfCall.op = "Seek" =>
          /\ rfCall.delegated = rfReader.seekable
          /\ rfReader.seekable =>
                (rfCall.err = "none" => rfCall.posAfter = rfCall.ret)
          /\ ~rfReader.seekable =>
                /\ rfCall.ret = 0
                /\ rfCall.err = "ErrNotSupported"
                /\ rfCall.posAfter = rfCall.posBefore
                /\ rfReader.pos = rfCall.posBefore
    /\ rfCall.op = "NextFile" =>
          /\ rfCall.err = "ErrNotDirectory"
          /\ rfReader.pos = rfCall.posBefore

(* a Seek on a reader that cannot seek, after some bytes were read          *)
C20_Witness ==
    /\ rfCall.op = "Seek"
    /\ ~rfReader.seekable
    /\ rfCall.err = "ErrNotSupported"
    /\ rfReader.pos > 0


(* ========================= claims: materialization ====================== *)
(* where the path leads in a store: the CID reached when every block on the *)
(* way is there and every segment names a link; else which of the two fails *)
RECURSIVE Walk(_, _, _)
Walk(store, c, segs) ==
    IF ~InStore(store, c) THEN [st |-> "missing", cid |-> c]
    ELSE IF segs = <<>> THEN [st |-> "ok", cid |-> c]
    ELSE IF HasLink(Lookup(store, c), Head(segs))
        THEN Walk(store, LinkTo(Lookup(store, c), Head(segs)), Tail(segs))
    ELSE [st |-> "nolink", cid |-> c]

(* every node of the files at these CIDs is in the store and is a file node *)
RECURSIVE Complete(_, _)
Complete(store, cids) ==
    \/ cids = <<>>
    \/ /\ InStore(store, Head(cids))
       /\ NodeKind(Lookup(store, Head(cids))) = "file"
       /\ Complete(store, Links(Lookup(store, Head(cids))))
       /\ Complete(store, Tail(cids))

(* the bytes of the files at these CIDs, one after the other: inline bytes  *)
(* of a node, or the bytes of its chunks in the order of the links          *)
RECURSIVE FileBytes(_, _)
FileBytes(store, cids) ==
    IF cids = <<>> THEN <<>>
    ELSE LET data == Lookup(store, Head(cids)) IN
         (IF IsChunked(data) THEN FileBytes(store, Links(data)) ELSE Inline(data))
             \o FileBytes(store, Tail(cids))

Ingested ==
    /\ carPc \notin {"idle", "loop"}
    /\ carErr \notin {"error creating car reader", "error reading block from car"}
Finished == carPc \in {"failed", "returned", "eof", "readFailed"}
Addressed == Walk(carStore, carRoot, carPath)

(* C16: no block is ever asked of the network; when a block on the way from *)
(* the root CID to the addressed node is not in the store after ingestion,  *)
(* materialization fails with the resolve error and returns no stream.      *)
C16_MissingBlockFailsOffline ==
    /\ ~carNetReq
    /\ (Ingested /\ Addressed.st = "missing") =>
          /\ carStream = NoStream
          /\ carPc \in {"loaded", "resolved", "failed"}
          /\ carPc = "failed" => carErr = "failed to resolve"

(* the root directory is in the store, the block its link names is not      *)
C16_Witness ==
    /\ carPc = "failed"
    /\ carErr = "failed to resolve"
    /\ carPath # <<>>
    /\ carSegs = <<>>
    /\ InStore(carStore, carRoot)
    /\ Addressed.st = "missing"
    /\ ~carNetReq

(* C17: a stream is returned only when the node reached after all segments  *)
(* is a file; for a node of any other kind materialization fails and        *)
(* returns no stream.                                                       *)
C17_StreamOnlyForFiles ==
    /\ carStream # NoStream =>
          /\ Addressed.st = "ok"
          /\ NodeKind(Lookup(carStore, Addressed.cid)) = "file"
    /\ (Ingested /\ Finished /\ Addressed.st = "ok"
          /\ NodeKind(Lookup(carStore, Addressed.cid)) # "file") =>
          /\ carPc = "failed"
          /\ carErr \in {"unexpected unixfs node type", "error building unixfs file"}

(* C18: when the addressed node is a file whose blocks are all in the       *)
(* store, materialization does not fail, what has been read from the stream *)
(* is always the start of the file's bytes, and at the end of the stream it *)
(* is all of them.                                                          *)
C18_StreamYieldsFileBytes ==
    (/\ Ingested
     /\ Addressed.st = "ok"
     /\ Complete(carStore, <<Addressed.cid>>)) =>
        LET bytes == FileBytes(carStore, <<Addressed.cid>>) IN
        /\ carPc \notin {"failed", "readFailed"}
        /\ carPc \in {"returned", "eof"} =>
              /\ Len(carOut) <= Len(bytes)
              /\ carOut = SubSeq(bytes, 1, Len(carOut))
        /\ carPc = "eof" => carOut = bytes

(* a file of two chunks with different bytes was read to its end            *)
C18_Witness ==
    /\ carPc = "eof"
    /\ IsChunked(carStream)
    /\ Len(carOut) = 2
    /\ carOut[1] # carOut[2]
    /\ carStoreClosed


(* C23: the block store and block service behind a returned stream are not  *)
(* closed while the stream can still be read: no step in which the reader   *)
(* of the returned stream loads a node from the block service (a node       *)
(* other than the one the stream was built on, which carToFileStream        *)
(* loaded itself) is taken after dagService.Blocks.Close() and              *)
(* dataStore.Close() have run.                                              *)
C23_NoReadAfterStoreClosed ==
    [][(/\ carPc = "returned"
        /\ carTodo # <<>>
        /\ "text" \notin DOMAIN Head(carTodo)
        /\ Head(carTodo) # carCur
        /\ <<carPc, carTodo, carOut>>' # <<carPc, carTodo, carOut>>)
            => ~carStoreClosed]_vars

====
